---------------------------- MODULE Spec2Model ----------------------------
(***************************************************************************)
(* Desire-Hunter: the POST /api/hunt handler                               *)
(* (src/frontend/src/app/api/hunt/route.ts) as a state machine.            *)
(*                                                                         *)
(* The handler is an async function: the code between two awaits runs      *)
(* atomically on the event loop, so there is one action per continuation   *)
(* (request arrival, the return of analyzeDesire, the return of each       *)
(* search / scrape / extractProduct call, and the two Promise.all joins).  *)
(* The three external services are deterministic stand-ins described by    *)
(* the variable world (what the analyzer, the search index and the web     *)
(* pages hold); whether a call throws is chosen when the call returns.     *)
(*                                                                         *)
(* The page that calls the handler (src/frontend/src/app/page.tsx) is the  *)
(* variable home, with its own specification SpecPage.                     *)
(***************************************************************************)
EXTENDS Integers, Sequences, FiniteSets, TLC

VARIABLES
    world,          \* the stand-in services: queries, hits per language, pages
    pc,             \* where POST is: idle, analyzing, searching, scraping, responded
    body,           \* the request body as received
    desire,         \* const { desire } = body
    analyzeCalls,   \* number of analyzeDesire calls issued
    analyzeThrew,   \* analyzeDesire rejected
    searchCalls,    \* search calls issued, in issue order: <<query, language, limit>> records
    searchBr,       \* one entry per searchPromises element
    errors,         \* result.errors
    totalSearched,  \* result.totalSearched
    uniqueUrls,     \* const uniqueUrls
    limitedUrls,    \* const limitedUrls
    scrapeCalls,    \* scrape calls issued, in issue order
    scrapeBr,       \* one entry per scrapePromises element
    totalScraped,   \* result.totalScraped
    products,       \* result.products
    response,       \* what POST returned
    home            \* the page (page.tsx): its state, where handleSubmit is, the reply

vars == <<world, pc, body, desire, analyzeCalls, analyzeThrew, searchCalls,
          searchBr, errors, totalSearched, uniqueUrls, limitedUrls,
          scrapeCalls, scrapeBr, totalScraped, products, response, home>>

-----------------------------------------------------------------------------
(* Program constants of route.ts *)

MaxSearchQueries == 2      \* translatedQueries.slice(0, 2)
SearchLimit == 3           \* search(query.query, query.language, 3)
MaxScrapeUrls == 5         \* uniqueUrls.slice(0, 5)
MinContentLength == 100    \* content.length > 100
MinRelevanceScore == 5     \* product.relevanceScore >= 5
MaxProducts == 5           \* result.products.slice(0, 5)
StatusOk == 200
StatusBadRequest == 400
StatusServerError == 500

(* Bounds of the model *)

MaxHits == 3               \* hits one search call returns, at most
MaxSlots == 3              \* candidates the aggregation step is started with, at most

Min(a, b) == IF a <= b THEN a ELSE b

-----------------------------------------------------------------------------
(* JavaScript values, as far as the handler looks at them: a type tag and  *)
(* the value's text.                                                       *)

Undefined == [t |-> "undefined", v |-> ""]
JsNull == [t |-> "null", v |-> ""]
JsString(s) == [t |-> "string", v |-> s]
JsNumber(s) == [t |-> "number", v |-> s]
JsBoolean(s) == [t |-> "boolean", v |-> s]
JsObject == [t |-> "object", v |-> "{}"]

\* ToBoolean: undefined, null, "", 0, NaN and false are falsy
Truthy(x) ==
    CASE x.t \in {"undefined", "null"} -> FALSE
      [] x.t = "string" -> x.v # ""
      [] x.t = "number" -> x.v \notin {"0", "NaN"}
      [] x.t = "boolean" -> x.v = "true"
      [] OTHER -> TRUE

\* typeof x
TypeOf(x) == IF x.t = "null" THEN "object" ELSE x.t

(* A request body: whether request.json() parses it, the JSON type of the   *)
(* parsed value and the value of its own property "desire" (Undefined when *)
(* it has none).                                                           *)
ValidDesire == "focus"

DesireValues ==
    { Undefined, JsNull, JsString(""), JsString(ValidDesire), JsNumber("0"),
      JsNumber("7"), JsBoolean("true"), JsBoolean("false"), JsObject }

RequestBodies ==
    { [parses |-> FALSE, t |-> "undefined", desire |-> Undefined] }
    \cup { [parses |-> TRUE, t |-> ty, desire |-> Undefined] :
             ty \in {"null", "number", "string", "boolean", "array"} }
    \cup { [parses |-> TRUE, t |-> "object", desire |-> d] : d \in DesireValues }

\* const { desire } = body throws a TypeError when body is null
DestructureThrows(b) == b.t \in {"null", "undefined"}

\* !desire || typeof desire !== "string"
DesireRejected(d) == ~Truthy(d) \/ TypeOf(d) # "string"


-----------------------------------------------------------------------------
(* Data of the external services *)

Languages == {"en", "ja", "zh"}
LanguageOrder == <<"en", "ja", "zh">>
QueryText == [en |-> "improve focus", ja |-> "shuchuryoku", zh |-> "zhuanzhu"]

\* TranslatedQuery { query, language }
TranslatedQuery(l) == [query |-> QueryText[l], language |-> l]

\* SearchResult: only link is read by the handler
Hit(u) == [link |-> u]

RECURSIVE Hits(_)
Hits(us) == IF us = <<>> THEN <<>> ELSE <<Hit(Head(us))>> \o Hits(Tail(us))

\* Product { name, officialUrl?, relevanceScore }: the fields the handler reads
Product(n, u, s) == [name |-> n, officialUrl |-> u, relevanceScore |-> s]

\* String.prototype.toLowerCase on the product names of the model
ToLowerCase(s) ==
    CASE s \in {"Desk", "DESK", "desk"} -> "desk"
      [] s \in {"Lamp", "LAMP", "lamp"} -> "lamp"
      [] s = "Chair" -> "chair"
      [] s = "Mat" -> "mat"
      [] s = "Rug" -> "rug"
      [] s = "Sofa" -> "sofa"
      [] OTHER -> s

\* what scrape(url) resolves to: a string of some length, or null
Content(n) == [isNull |-> FALSE, length |-> n]
NullContent == [isNull |-> TRUE, length |-> 0]

\* a web page: what scrape returns for it and what extractProduct makes of it
Page(c, p) == [content |-> c, extracted |-> p]

-----------------------------------------------------------------------------
(* The pure steps of the handler *)

\* LimitedQueries without the slice: every translated query is searched
LimitedQueriesUncapped(queries) == queries

\* analysis.translatedQueries.slice(0, 2)
LimitedQueries(queries) == SubSeq(queries, 1, Min(MaxSearchQueries, Len(queries)))

\* searchResults.flat()
RECURSIVE Flat(_)
Flat(lists) == IF lists = <<>> THEN <<>> ELSE Head(lists) \o Flat(Tail(lists))

\* allSearchResults.map((r) => r.link)
Links(hits) == [i \in 1..Len(hits) |-> hits[i].link]

Range(s) == { s[i] : i \in 1..Len(s) }

\* Set.prototype.add: a Set keeps insertion order and ignores a value it holds
SetAdd(acc, x) == IF x \in Range(acc) THEN acc ELSE Append(acc, x)

RECURSIVE SetFrom(_, _)
SetFrom(acc, xs) == IF xs = <<>> THEN acc ELSE SetFrom(SetAdd(acc, Head(xs)), Tail(xs))

\* UniqueUrls with the cap applied to the hits, before the Set removes repeats
UniqueUrlsOfFirstHits(hits) ==
    SetFrom(<<>>, Links(SubSeq(hits, 1, Min(MaxScrapeUrls, Len(hits)))))

\* [...new Set(allSearchResults.map((r) => r.link))]
UniqueUrls(hits) == SetFrom(<<>>, Links(hits))

\* uniqueUrls.slice(0, 5)
LimitedUrls(urls) == SubSeq(urls, 1, Min(MaxScrapeUrls, Len(urls)))

\* ContentSufficient with >= for >
ContentSufficientInclusive(c) ==
    ~c.isNull /\ c.length # 0 /\ c.length >= MinContentLength

\* content && content.length > 100
ContentSufficient(c) == ~c.isNull /\ c.length # 0 /\ c.length > MinContentLength

\* Qualifies without the score test
QualifiesUnscored(product) == product # JsNull

\* product && product.relevanceScore >= 5
Qualifies(product) == product # JsNull /\ product.relevanceScore >= MinRelevanceScore

\* SameProduct comparing the names as they are, without toLowerCase
SameProductCaseSensitive(p, product) ==
    \/ p.name = product.name
    \/ (Truthy(p.officialUrl) /\ p.officialUrl = product.officialUrl)

\* the predicate of result.products.some(...)
SameProduct(p, product) ==
    \/ ToLowerCase(p.name) = ToLowerCase(product.name)
    \/ (Truthy(p.officialUrl) /\ p.officialUrl = product.officialUrl)

IsDuplicate(acc, product) == \E i \in 1..Len(acc) : SameProduct(acc[i], product)

\* FilterProducts in which a duplicate with a higher relevanceScore takes the
\* place of the product kept before it
RECURSIVE FilterProductsBestWins(_, _)
FilterProductsBestWins(acc, slots) ==
    IF slots = <<>> THEN acc
    ELSE LET product == Head(slots)
             worse == { i \in 1..Len(acc) :
                          /\ SameProduct(acc[i], product)
                          /\ acc[i].relevanceScore < product.relevanceScore }
         IN  IF ~Qualifies(product)
             THEN FilterProductsBestWins(acc, Tail(slots))
             ELSE IF ~IsDuplicate(acc, product)
             THEN FilterProductsBestWins(Append(acc, product), Tail(slots))
             ELSE IF worse # {}
             THEN FilterProductsBestWins(
                      [acc EXCEPT ![CHOOSE i \in worse : TRUE] = product], Tail(slots))
             ELSE FilterProductsBestWins(acc, Tail(slots))

\* for (const product of products) { ... result.products.push(product) }
RECURSIVE FilterProducts(_, _)
FilterProducts(acc, slots) ==
    IF slots = <<>> THEN acc
    ELSE LET product == Head(slots)
         IN  IF Qualifies(product) /\ ~IsDuplicate(acc, product)
             THEN FilterProducts(Append(acc, product), Tail(slots))
             ELSE FilterProducts(acc, Tail(slots))

\* the comparator with its operands exchanged: ascending relevanceScore
CompareScoreAscending(a, b) == a.relevanceScore - b.relevanceScore

\* (a, b) => b.relevanceScore - a.relevanceScore
CompareScore(a, b) == b.relevanceScore - a.relevanceScore

\* InsertSorted of an unstable sort: x goes before the elements it ties with
RECURSIVE InsertSortedUnstable(_, _)
InsertSortedUnstable(sorted, x) ==
    IF sorted = <<>> THEN <<x>>
    ELSE IF CompareScore(Head(sorted), x) < 0
         THEN <<Head(sorted)>> \o InsertSortedUnstable(Tail(sorted), x)
         ELSE <<x>> \o sorted

\* Array.prototype.sort is stable (ES2019): x goes behind every element it does
\* not have to precede
RECURSIVE InsertSorted(_, _)
InsertSorted(sorted, x) ==
    IF sorted = <<>> THEN <<x>>
    ELSE IF CompareScore(Head(sorted), x) <= 0
         THEN <<Head(sorted)>> \o InsertSorted(Tail(sorted), x)
         ELSE <<x>> \o sorted

RECURSIVE SortProducts(_, _)
SortProducts(sorted, xs) ==
    IF xs = <<>> THEN sorted ELSE SortProducts(InsertSorted(sorted, Head(xs)), Tail(xs))

\* result.products.slice(0, 5)
TopProducts(ps) == SubSeq(ps, 1, Min(MaxProducts, Len(ps)))

\* lines 87-106: filter, deduplicate, sort, truncate
Aggregate(slots) == TopProducts(SortProducts(<<>>, FilterProducts(<<>>, slots)))

-----------------------------------------------------------------------------
(* The stand-in services.  A world fixes what the analyzer translates the  *)
(* desire to, what the search index returns per language and what each     *)
(* page holds; the handler never sees more of a service than its replies.  *)

Urls == {"A", "B", "C", "D", "E", "F"}

NoUrl == Undefined
Url(u) == JsString(u)

\* ordered selections of the languages: zero to three translated queries
QueryLists ==
    { <<>>,
      <<TranslatedQuery("en")>>, <<TranslatedQuery("ja")>>,
      <<TranslatedQuery("en"), TranslatedQuery("ja")>>,
      <<TranslatedQuery("ja"), TranslatedQuery("en")>>,
      <<TranslatedQuery("ja"), TranslatedQuery("zh")>>,
      <<TranslatedQuery("en"), TranslatedQuery("ja"), TranslatedQuery("zh")>> }

\* hits [A, B, A] then [C]: the flattened [A, B, A, C] of the merger's example
HitsRepeated ==
    [en |-> Hits(<<"A", "B", "A">>), ja |-> Hits(<<"C">>), zh |-> Hits(<<"F", "C">>)]
\* six distinct links over the first two languages: one more than is scraped
HitsWide ==
    [en |-> Hits(<<"A", "B", "C">>), ja |-> Hits(<<"D", "E", "F">>), zh |-> Hits(<<"A">>)]
\* one language without hits, the others overlapping
HitsSparse ==
    [en |-> <<>>, ja |-> Hits(<<"C", "B", "C">>), zh |-> Hits(<<"B", "A">>)]

\* six distinct links again, in another order: the first five all hold products
HitsTail ==
    [en |-> Hits(<<"E", "F", "A">>), ja |-> Hits(<<"B", "C", "D">>), zh |-> <<>>]

HitMaps == {HitsRepeated, HitsWide, HitsSparse, HitsTail}

\* products that duplicate each other by name (ignoring case) and by officialUrl,
\* a page of exactly 100 characters, a score below the threshold, a tie
PagesDuplicates ==
    [A |-> Page(Content(500), Product("Desk", Url("u1"), 7)),
     B |-> Page(Content(500), Product("DESK", Url("u2"), 9)),
     C |-> Page(Content(500), Product("Lamp", Url("u1"), 7)),
     D |-> Page(Content(100), Product("Chair", NoUrl, 8)),
     E |-> Page(Content(500), Product("Mat", NoUrl, 4)),
     F |-> Page(Content(500), Product("Rug", Url(""), 7))]
\* the end-to-end scenario: distinct products scoring 9, 7, 6, 4, 8
PagesScenario ==
    [A |-> Page(Content(101), Product("Desk", Url("u1"), 9)),
     B |-> Page(Content(101), Product("Lamp", Url("u2"), 7)),
     C |-> Page(Content(101), Product("Chair", NoUrl, 6)),
     D |-> Page(Content(101), Product("Mat", NoUrl, 4)),
     E |-> Page(Content(101), Product("Rug", Url(""), 8)),
     F |-> Page(Content(101), Product("Sofa", Url(""), 5))]
\* pages with no, empty or short content, and one the extractor finds nothing in
PagesSparse ==
    [A |-> Page(NullContent, JsNull),
     B |-> Page(Content(0), JsNull),
     C |-> Page(Content(99), Product("Lamp", NoUrl, 9)),
     D |-> Page(Content(100), Product("Desk", NoUrl, 9)),
     E |-> Page(Content(101), Product("desk", NoUrl, 5)),
     F |-> Page(Content(500), JsNull)]

PageMaps == {PagesDuplicates, PagesScenario, PagesSparse}

Worlds == [queries : QueryLists, hits : HitMaps, page : PageMaps]

\* what search(query.query, query.language, 3) resolves to
SearchReply(w, query) == w.hits[query.language]
\* what scrape(url) resolves to
ScrapeReply(w, url) == w.page[url].content
\* what extractProduct(content, desire) resolves to for the content of url
ExtractReply(w, url) == w.page[url].extracted

-----------------------------------------------------------------------------
(* Responses and error entries *)

NoResponse == [status |-> 0, kind |-> "none", error |-> ""]
\* NextResponse.json(result)
HuntResultResponse == [status |-> StatusOk, kind |-> "HuntResult", error |-> ""]
\* NextResponse.json({ error: <"please enter a desire"> }, { status: 400 })
BadRequestResponse ==
    [status |-> StatusBadRequest, kind |-> "error", error |-> "desire-required"]
\* NextResponse.json({ error: <"an internal error occurred"> }, { status: 500 })
ServerErrorResponse ==
    [status |-> StatusServerError, kind |-> "error", error |-> "internal-error"]

\* the template string <"search error: "> + query.language
SearchErrorEntry(language) == [text |-> "search-error", language |-> language]

\* a search branch: the promise of one searchPromises element
PendingSearch == [st |-> "pending", threw |-> FALSE, results |-> <<>>]
\* a scrape branch: the promise of one scrapePromises element
PendingScrape ==
    [st |-> "scrape", scrapeThrew |-> FALSE, content |-> NullContent,
     extractCalled |-> FALSE, extractThrew |-> FALSE, product |-> JsNull]

-----------------------------------------------------------------------------
(* The handler *)

NoBody == [parses |-> FALSE, t |-> "none", desire |-> Undefined]

\* no response of a fetch is held by the page
NoReply ==
    [settled |-> "none", ok |-> FALSE, contentType |-> JsNull,
     body |-> [read |-> FALSE, text |-> "", parses |-> FALSE,
               value |-> Undefined, error |-> Undefined]]

\* page.tsx lines 31-34: the state of the page when it is loaded
PageLoaded ==
    [desire |-> <<>>, isLoading |-> FALSE, result |-> JsNull, error |-> JsNull,
     pc |-> "idle", calls |-> 0, fetches |-> 0, reply |-> NoReply]

\* the request's private state before POST runs (lines 28-34 set the same values)
IdleRequest ==
    /\ home = PageLoaded
    /\ pc = "idle"
    /\ body = NoBody
    /\ desire = Undefined
    /\ analyzeCalls = 0
    /\ analyzeThrew = FALSE
    /\ searchCalls = <<>>
    /\ searchBr = <<>>
    /\ errors = <<>>
    /\ totalSearched = 0
    /\ uniqueUrls = <<>>
    /\ limitedUrls = <<>>
    /\ scrapeCalls = <<>>
    /\ scrapeBr = <<>>
    /\ totalScraped = 0
    /\ products = <<>>
    /\ response = NoResponse

Init == world \in Worlds /\ IdleRequest

\* return NextResponse.json(...): the handler is done
Respond(r) == pc' = "responded" /\ response' = r

\* line 18: POST is called and awaits request.json()
Post(b) ==
    /\ pc = "idle"
    /\ pc' = "parsing"
    /\ body' = b
    /\ UNCHANGED <<home, world, desire, analyzeCalls, analyzeThrew, searchCalls, searchBr,
                   errors, totalSearched, uniqueUrls, limitedUrls, scrapeCalls,
                   scrapeBr, totalScraped, products, response>>

\* lines 18-38: request.json() settles; destructure, validate, call analyzeDesire
BodyParsed ==
    /\ pc = "parsing"
    /\ IF ~body.parses \/ DestructureThrows(body)
       THEN /\ Respond(ServerErrorResponse)
            /\ UNCHANGED <<desire, analyzeCalls>>
       ELSE IF DesireRejected(body.desire)
       THEN /\ Respond(BadRequestResponse)
            /\ desire' = body.desire
            /\ UNCHANGED analyzeCalls
       ELSE /\ desire' = body.desire
            /\ analyzeCalls' = analyzeCalls + 1
            /\ pc' = "analyzing"
            /\ UNCHANGED response
    /\ UNCHANGED <<home, world, body, analyzeThrew, searchCalls, searchBr, errors,
                   totalSearched, uniqueUrls, limitedUrls, scrapeCalls, scrapeBr,
                   totalScraped, products>>

\* the calls limitedQueries.map(...) issues, one per query, in array order
SearchCallsFor(queries) ==
    [i \in 1..Len(queries) |->
        [query |-> queries[i].query, language |-> queries[i].language,
         limit |-> SearchLimit]]

\* lines 39-57: analyzeDesire resolved; slice the queries and start every search
AnalyzeResolved ==
    /\ pc = "analyzing"
    /\ LET limitedQueries == LimitedQueries(world.queries)
       IN  /\ searchCalls' = SearchCallsFor(limitedQueries)
           /\ searchBr' = [i \in 1..Len(limitedQueries) |-> PendingSearch]
    /\ pc' = "searching"
    /\ UNCHANGED <<home, world, body, desire, analyzeCalls, analyzeThrew, errors,
                   totalSearched, uniqueUrls, limitedUrls, scrapeCalls, scrapeBr,
                   totalScraped, products, response>>

\* AnalyzeRejected with the rejection swallowed: the handler goes on to search
AnalyzeRejectedSwallowed ==
    /\ pc = "analyzing"
    /\ analyzeThrew' = TRUE
    /\ searchCalls' = SearchCallsFor(LimitedQueries(world.queries))
    /\ searchBr' = [i \in 1..Len(LimitedQueries(world.queries)) |-> PendingSearch]
    /\ pc' = "searching"
    /\ UNCHANGED <<home, world, body, desire, analyzeCalls, errors, totalSearched,
                   uniqueUrls, limitedUrls, scrapeCalls, scrapeBr, totalScraped,
                   products, response>>

\* AnalyzeRejected with no catch around it: the handler stops without answering
AnalyzeRejectedUnanswered ==
    /\ pc = "analyzing"
    /\ analyzeThrew' = TRUE
    /\ pc' = "crashed"
    /\ UNCHANGED <<home, world, body, desire, analyzeCalls, searchCalls, searchBr, errors,
                   totalSearched, uniqueUrls, limitedUrls, scrapeCalls, scrapeBr,
                   totalScraped, products, response>>

\* lines 38, 111-116: analyzeDesire rejected; the outer catch answers 500
AnalyzeRejected ==
    /\ pc = "analyzing"
    /\ analyzeThrew' = TRUE
    /\ Respond(ServerErrorResponse)
    /\ UNCHANGED <<home, world, body, desire, analyzeCalls, searchCalls, searchBr, errors,
                   totalSearched, uniqueUrls, limitedUrls, scrapeCalls, scrapeBr,
                   totalScraped, products>>

\* SearchResolved with the hits collected in order of arrival instead of in
\* the order of the queries: the k-th branch to settle fills the k-th place
SearchResolvedInArrivalOrder(i) ==
    /\ pc = "searching"
    /\ searchBr[i].st = "pending"
    /\ LET k == 1 + Cardinality({ j \in 1..Len(searchBr) : searchBr[j].st = "resolved" })
       IN  searchBr' = [searchBr EXCEPT
              ![i].st = "resolved",
              ![k].results = SearchReply(world, LimitedQueries(world.queries)[i])]
    /\ UNCHANGED <<home, world, pc, body, desire, analyzeCalls, analyzeThrew, searchCalls,
                   errors, totalSearched, uniqueUrls, limitedUrls, scrapeCalls,
                   scrapeBr, totalScraped, products, response>>

\* lines 47-49: search resolved for branch i
SearchResolved(i) ==
    /\ pc = "searching"
    /\ searchBr[i].st = "pending"
    /\ searchBr' = [searchBr EXCEPT ![i] =
          [st |-> "resolved", threw |-> FALSE,
           results |-> SearchReply(world, LimitedQueries(world.queries)[i])]]
    /\ UNCHANGED <<home, world, pc, body, desire, analyzeCalls, analyzeThrew, searchCalls,
                   errors, totalSearched, uniqueUrls, limitedUrls, scrapeCalls,
                   scrapeBr, totalScraped, products, response>>

\* SearchRejected without the push to result.errors
SearchRejectedSilently(i) ==
    /\ pc = "searching"
    /\ searchBr[i].st = "pending"
    /\ searchBr' = [searchBr EXCEPT ![i] =
          [st |-> "resolved", threw |-> TRUE, results |-> <<>>]]
    /\ UNCHANGED <<home, world, pc, body, desire, analyzeCalls, analyzeThrew, searchCalls,
                   errors, totalSearched, uniqueUrls, limitedUrls, scrapeCalls,
                   scrapeBr, totalScraped, products, response>>

\* SearchRejected putting its entry in front of the entries already there
SearchRejectedPrepending(i) ==
    /\ pc = "searching"
    /\ searchBr[i].st = "pending"
    /\ errors' = <<SearchErrorEntry(LimitedQueries(world.queries)[i].language)>> \o errors
    /\ searchBr' = [searchBr EXCEPT ![i] =
          [st |-> "resolved", threw |-> TRUE, results |-> <<>>]]
    /\ UNCHANGED <<home, world, pc, body, desire, analyzeCalls, analyzeThrew, searchCalls,
                   totalSearched, uniqueUrls, limitedUrls, scrapeCalls, scrapeBr,
                   totalScraped, products, response>>

\* lines 50-54: search rejected for branch i; push the error, resolve to []
SearchRejected(i) ==
    /\ pc = "searching"
    /\ searchBr[i].st = "pending"
    /\ errors' = Append(errors, SearchErrorEntry(LimitedQueries(world.queries)[i].language))
    /\ searchBr' = [searchBr EXCEPT ![i] =
          [st |-> "resolved", threw |-> TRUE, results |-> <<>>]]
    /\ UNCHANGED <<home, world, pc, body, desire, analyzeCalls, analyzeThrew, searchCalls,
                   totalSearched, uniqueUrls, limitedUrls, scrapeCalls, scrapeBr,
                   totalScraped, products, response>>

\* const searchResults = await Promise.all(searchPromises)
SearchResults == [i \in 1..Len(searchBr) |-> searchBr[i].results]

\* SearchJoin treating an empty merged hit list as a failure of the request
SearchJoinFailingWhenEmpty ==
    /\ pc = "searching"
    /\ \A i \in 1..Len(searchBr) : searchBr[i].st = "resolved"
    /\ LET allSearchResults == Flat(SearchResults)
       IN  /\ totalSearched' = Len(allSearchResults)
           /\ uniqueUrls' = UniqueUrls(allSearchResults)
           /\ limitedUrls' = LimitedUrls(UniqueUrls(allSearchResults))
           /\ IF allSearchResults = <<>>
              THEN pc' = "responded" /\ response' = ServerErrorResponse
              ELSE pc' = "scraping" /\ response' = response
    /\ scrapeCalls' = limitedUrls'
    /\ scrapeBr' = [i \in 1..Len(limitedUrls') |-> PendingScrape]
    /\ UNCHANGED <<home, world, body, desire, analyzeCalls, analyzeThrew, searchCalls,
                   searchBr, errors, totalScraped, products>>

\* SearchJoin that goes on as soon as one search branch has settled
SearchJoinEarly ==
    /\ pc = "searching"
    /\ searchBr = <<>> \/ \E i \in 1..Len(searchBr) : searchBr[i].st = "resolved"
    /\ LET allSearchResults == Flat(SearchResults)
       IN  /\ totalSearched' = Len(allSearchResults)
           /\ uniqueUrls' = UniqueUrls(allSearchResults)
           /\ limitedUrls' = LimitedUrls(UniqueUrls(allSearchResults))
    /\ scrapeCalls' = limitedUrls'
    /\ scrapeBr' = [i \in 1..Len(limitedUrls') |-> PendingScrape]
    /\ pc' = "scraping"
    /\ UNCHANGED <<home, world, body, desire, analyzeCalls, analyzeThrew, searchCalls,
                   searchBr, errors, totalScraped, products, response>>

\* lines 57-71: every search branch settled; flatten, count, deduplicate, cap
\* and start every scrape
SearchJoin ==
    /\ pc = "searching"
    /\ \A i \in 1..Len(searchBr) : searchBr[i].st = "resolved"
    /\ LET allSearchResults == Flat(SearchResults)
       IN  /\ totalSearched' = Len(allSearchResults)
           /\ uniqueUrls' = UniqueUrls(allSearchResults)
           /\ limitedUrls' = LimitedUrls(UniqueUrls(allSearchResults))
    /\ scrapeCalls' = limitedUrls'
    /\ scrapeBr' = [i \in 1..Len(limitedUrls') |-> PendingScrape]
    /\ pc' = "scraping"
    /\ UNCHANGED <<home, world, body, desire, analyzeCalls, analyzeThrew, searchCalls,
                   searchBr, errors, totalScraped, products, response>>

\* lines 71-76: scrape resolved for branch i; extract if the content suffices
ScrapeResolved(i) ==
    /\ pc = "scraping"
    /\ scrapeBr[i].st = "scrape"
    /\ LET content == ScrapeReply(world, limitedUrls[i])
       IN  scrapeBr' = [scrapeBr EXCEPT ![i] =
              IF ContentSufficient(content)
              THEN [@ EXCEPT !.st = "extract", !.content = content,
                             !.extractCalled = TRUE]
              ELSE [@ EXCEPT !.st = "resolved", !.content = content]]
    /\ UNCHANGED <<home, world, pc, body, desire, analyzeCalls, analyzeThrew, searchCalls,
                   searchBr, errors, totalSearched, uniqueUrls, limitedUrls,
                   scrapeCalls, totalScraped, products, response>>

\* ScrapeRejected without the branch's catch: Promise.all rejects, POST answers 500
ScrapeRejectedUncaught(i) ==
    /\ pc = "scraping"
    /\ scrapeBr[i].st = "scrape"
    /\ scrapeBr' = [scrapeBr EXCEPT ![i] =
          [@ EXCEPT !.st = "resolved", !.scrapeThrew = TRUE]]
    /\ Respond(ServerErrorResponse)
    /\ UNCHANGED <<home, world, body, desire, analyzeCalls, analyzeThrew, searchCalls,
                   searchBr, errors, totalSearched, uniqueUrls, limitedUrls,
                   scrapeCalls, totalScraped, products>>

\* lines 77-80: scrape rejected for branch i; the branch resolves to null
ScrapeRejected(i) ==
    /\ pc = "scraping"
    /\ scrapeBr[i].st = "scrape"
    /\ scrapeBr' = [scrapeBr EXCEPT ![i] =
          [@ EXCEPT !.st = "resolved", !.scrapeThrew = TRUE]]
    /\ UNCHANGED <<home, world, pc, body, desire, analyzeCalls, analyzeThrew, searchCalls,
                   searchBr, errors, totalSearched, uniqueUrls, limitedUrls,
                   scrapeCalls, totalScraped, products, response>>

\* lines 73-74: extractProduct resolved for branch i
ExtractResolved(i) ==
    /\ pc = "scraping"
    /\ scrapeBr[i].st = "extract"
    /\ scrapeBr' = [scrapeBr EXCEPT ![i] =
          [@ EXCEPT !.st = "resolved",
                    !.product = ExtractReply(world, limitedUrls[i])]]
    /\ UNCHANGED <<home, world, pc, body, desire, analyzeCalls, analyzeThrew, searchCalls,
                   searchBr, errors, totalSearched, uniqueUrls, limitedUrls,
                   scrapeCalls, totalScraped, products, response>>

\* ExtractRejected with the failure also reported as an errors entry
ExtractRejectedReported(i) ==
    /\ pc = "scraping"
    /\ scrapeBr[i].st = "extract"
    /\ scrapeBr' = [scrapeBr EXCEPT ![i] =
          [@ EXCEPT !.st = "resolved", !.extractThrew = TRUE]]
    /\ errors' = Append(errors, [text |-> "extract-error", language |-> ""])
    /\ UNCHANGED <<home, world, pc, body, desire, analyzeCalls, analyzeThrew, searchCalls,
                   searchBr, totalSearched, uniqueUrls, limitedUrls,
                   scrapeCalls, totalScraped, products, response>>

\* lines 77-80: extractProduct rejected for branch i; the branch resolves to null
ExtractRejected(i) ==
    /\ pc = "scraping"
    /\ scrapeBr[i].st = "extract"
    /\ scrapeBr' = [scrapeBr EXCEPT ![i] =
          [@ EXCEPT !.st = "resolved", !.extractThrew = TRUE]]
    /\ UNCHANGED <<home, world, pc, body, desire, analyzeCalls, analyzeThrew, searchCalls,
                   searchBr, errors, totalSearched, uniqueUrls, limitedUrls,
                   scrapeCalls, totalScraped, products, response>>

\* const products = await Promise.all(scrapePromises)
Slots == [i \in 1..Len(scrapeBr) |-> scrapeBr[i].product]

\* ScrapeJoin counting only the candidates that yielded a product
ScrapeJoinCountingProducts ==
    /\ pc = "scraping"
    /\ \A i \in 1..Len(scrapeBr) : scrapeBr[i].st = "resolved"
    /\ totalScraped' = Cardinality({ i \in 1..Len(Slots) : Slots[i] # JsNull })
    /\ products' = Aggregate(Slots)
    /\ Respond(HuntResultResponse)
    /\ UNCHANGED <<home, world, body, desire, analyzeCalls, analyzeThrew, searchCalls,
                   searchBr, errors, totalSearched, uniqueUrls, limitedUrls,
                   scrapeCalls, scrapeBr>>

\* lines 83-110: every scrape branch settled; count, aggregate, answer 200
ScrapeJoin ==
    /\ pc = "scraping"
    /\ \A i \in 1..Len(scrapeBr) : scrapeBr[i].st = "resolved"
    /\ totalScraped' = Len(limitedUrls)
    /\ products' = Aggregate(Slots)
    /\ Respond(HuntResultResponse)
    /\ UNCHANGED <<home, world, body, desire, analyzeCalls, analyzeThrew, searchCalls,
                   searchBr, errors, totalSearched, uniqueUrls, limitedUrls,
                   scrapeCalls, scrapeBr>>

Next ==
    \/ \E b \in RequestBodies : Post(b)
    \/ BodyParsed
    \/ AnalyzeResolved
    \/ AnalyzeRejected
    \/ \E i \in 1..Len(searchBr) : SearchResolved(i)
    \/ \E i \in 1..Len(searchBr) : SearchRejected(i)
    \/ SearchJoin
    \/ \E i \in 1..Len(scrapeBr) : ScrapeResolved(i)
    \/ \E i \in 1..Len(scrapeBr) : ScrapeRejected(i)
    \/ \E i \in 1..Len(scrapeBr) : ExtractResolved(i)
    \/ \E i \in 1..Len(scrapeBr) : ExtractRejected(i)
    \/ ScrapeJoin

Spec == Init /\ [][Next]_vars

\* every step of a request once it has arrived: the settlement of each
\* awaited call and the continuation that follows it
Progress ==
    \/ BodyParsed
    \/ AnalyzeResolved
    \/ AnalyzeRejected
    \/ \E i \in 1..Len(searchBr) : SearchResolved(i) \/ SearchRejected(i)
    \/ SearchJoin
    \/ \E i \in 1..Len(scrapeBr) : ScrapeResolved(i) \/ ScrapeRejected(i)
    \/ \E i \in 1..Len(scrapeBr) : ExtractResolved(i) \/ ExtractRejected(i)
    \/ ScrapeJoin

\* the handler where every awaited call eventually returns or throws and the
\* event loop runs every continuation that is ready
SpecLive == Init /\ [][Next]_vars /\ WF_vars(Progress)

-----------------------------------------------------------------------------
(* The merge step (lines 57-63) over every shape of search results.  The   *)
(* handler is started where both searches have resolved; the links are     *)
(* named in order of first occurrence, which loses nothing: the merge only *)
(* compares links for equality.                                            *)

UrlOrder == <<"A", "B", "C", "D", "E", "F", "G", "H">>

\* the link lists of length n whose k-th new link is UrlOrder[k]
RECURSIVE CanonicalLinkLists(_)
CanonicalLinkLists(n) ==
    IF n = 0 THEN {<<>>}
    ELSE UNION { { Append(s, UrlOrder[k]) :
                     k \in 1..Min(Cardinality(Range(s)) + 1, Len(UrlOrder)) } :
                 s \in CanonicalLinkLists(n - 1) }

ValidBody == [parses |-> TRUE, t |-> "object", desire |-> JsString(ValidDesire)]

TwoQueries == <<TranslatedQuery("en"), TranslatedQuery("ja")>>

\* the world whose index returns first for "en" and second for "ja"
MergeWorld(first, second) ==
    [queries |-> TwoQueries,
     hits |-> [en |-> Hits(first), ja |-> Hits(second), zh |-> <<>>],
     page |-> PagesScenario]

\* POST after both searches of world w resolved, before the join
SearchesResolved(w) ==
    /\ world = w
    /\ pc = "searching"
    /\ body = ValidBody
    /\ desire = ValidBody.desire
    /\ analyzeCalls = 1
    /\ analyzeThrew = FALSE
    /\ searchCalls = SearchCallsFor(LimitedQueries(w.queries))
    /\ searchBr = [i \in 1..Len(LimitedQueries(w.queries)) |->
                      [st |-> "resolved", threw |-> FALSE,
                       results |-> SearchReply(w, LimitedQueries(w.queries)[i])]]
    /\ errors = <<>>
    /\ totalSearched = 0
    /\ uniqueUrls = <<>>
    /\ limitedUrls = <<>>
    /\ scrapeCalls = <<>>
    /\ scrapeBr = <<>>
    /\ totalScraped = 0
    /\ products = <<>>
    /\ response = NoResponse
    /\ home = PageLoaded

InitMerge ==
    \E n1 \in 0..MaxHits, n2 \in 0..MaxHits :
        \E links \in CanonicalLinkLists(n1 + n2) :
            SearchesResolved(MergeWorld(SubSeq(links, 1, n1),
                                        SubSeq(links, n1 + 1, n1 + n2)))

SpecMerge == InitMerge /\ [][SearchJoin]_vars

-----------------------------------------------------------------------------
(* The aggregation step (lines 83-110) over every sequence of extraction   *)
(* outcomes.  The handler is started where every scrape branch of the      *)
(* candidates has resolved to a product of the catalog or to null.         *)

CatalogNames == {"Desk", "desk", "Lamp", "Rug"}
CatalogUrls == {NoUrl, Url("u1")}
CatalogScores == {4, 5, 9}

Catalog == { Product(n, u, s) : n \in CatalogNames, u \in CatalogUrls, s \in CatalogScores }

SlotLists == UNION { [1..n -> Catalog \cup {JsNull}] : n \in 0..MaxSlots }

IndexOf(seq, x) == CHOOSE i \in 1..Len(seq) : seq[i] = x

\* the world whose first Len(slots) pages hold the products of slots
AggregateWorld(slots) ==
    LET n == Len(slots)
    IN  [queries |-> TwoQueries,
         hits |-> [en |-> Hits(SubSeq(UrlOrder, 1, Min(SearchLimit, n))),
                   ja |-> Hits(SubSeq(UrlOrder, SearchLimit + 1, n)),
                   zh |-> <<>>],
         page |-> [u \in Urls |->
                     IF IndexOf(UrlOrder, u) <= n
                     THEN Page(Content(500), slots[IndexOf(UrlOrder, u)])
                     ELSE Page(NullContent, JsNull)]]

\* POST in that world after every scrape branch resolved without a throw,
\* before the join: the candidates are the first Len(slots) links
ScrapesResolved(slots) ==
    LET w == AggregateWorld(slots)
        candidates == SubSeq(UrlOrder, 1, Len(slots))
    IN  /\ world = w
        /\ pc = "scraping"
        /\ body = ValidBody
        /\ desire = ValidBody.desire
        /\ analyzeCalls = 1
        /\ analyzeThrew = FALSE
        /\ searchCalls = SearchCallsFor(TwoQueries)
        /\ searchBr = [i \in 1..2 |->
                          [st |-> "resolved", threw |-> FALSE,
                           results |-> SearchReply(w, TwoQueries[i])]]
        /\ errors = <<>>
        /\ totalSearched = Len(slots)
        /\ uniqueUrls = candidates
        /\ limitedUrls = candidates
        /\ scrapeCalls = candidates
        /\ scrapeBr = [i \in 1..Len(slots) |->
                          [st |-> "resolved", scrapeThrew |-> FALSE,
                           content |-> Content(500), extractCalled |-> TRUE,
                           extractThrew |-> FALSE, product |-> slots[i]]]
        /\ totalScraped = 0
        /\ products = <<>>
        /\ response = NoResponse
        /\ home = PageLoaded

\* five candidates with distinct products scoring 9, 7, 6, 4, 8
ScenarioSlots ==
    <<Product("Desk", Url("u1"), 9), Product("Lamp", Url("u2"), 7),
      Product("Chair", NoUrl, 6), Product("Mat", NoUrl, 4),
      Product("Rug", Url(""), 8)>>

InitAggregate == \E slots \in SlotLists \cup {ScenarioSlots} : ScrapesResolved(slots)

SpecAggregate == InitAggregate /\ [][ScrapeJoin]_vars

-----------------------------------------------------------------------------
(* The page (src/frontend/src/app/page.tsx): the state of Home and         *)
(* handleSubmit, one action per continuation between its awaits.  What     *)
(* fetch brings back is chosen when it settles: a rejection, or a response *)
(* with its ok flag, its content-type header and its body.                 *)

MaxText == 2               \* characters typed into the input, at most
MaxSubmits == 2            \* calls of handleSubmit, at most

Chars == {" ", "a"}
Texts == UNION { [1..n -> Chars] : n \in 0..MaxText }

IsWhiteSpace(c) == c = " "

\* String.prototype.trim
RECURSIVE TrimStart(_)
TrimStart(s) ==
    IF s # <<>> /\ IsWhiteSpace(Head(s)) THEN TrimStart(Tail(s)) ELSE s

RECURSIVE TrimEnd(_)
TrimEnd(s) ==
    IF s # <<>> /\ IsWhiteSpace(s[Len(s)]) THEN TrimEnd(SubSeq(s, 1, Len(s) - 1)) ELSE s

Trim(s) == TrimEnd(TrimStart(s))

\* !desire.trim()
DesireBlank(s) == Trim(s) = <<>>

\* the messages of the page
ParseMessage == "parse-error"               \* line 71
RequestFailedMessage == "request-failed"    \* line 58
ServerFailedMessage == "server-error"       \* line 62
FetchFailedMessage == "failed-to-fetch"     \* the TypeError of a rejected fetch
NullReadMessage == "cannot-read-null"       \* the TypeError of null.error

\* a response body: whether reading it succeeds, its text, whether the text
\* is JSON, the parsed value and that value's property "error"
ResponseBody(read, text, parses, value, err) ==
    [read |-> read, text |-> text, parses |-> parses, value |-> value, error |-> err]

JsonBody(value, err) == ResponseBody(TRUE, "json", TRUE, value, err)

ResponseBodies ==
    { JsonBody(JsObject, Undefined),
      JsonBody(JsObject, JsString("")),
      JsonBody(JsObject, JsString("internal-error")),
      JsonBody(JsNull, Undefined),
      ResponseBody(TRUE, "<html>", FALSE, Undefined, Undefined),
      ResponseBody(TRUE, "", FALSE, Undefined, Undefined),
      ResponseBody(FALSE, "", FALSE, Undefined, Undefined) }

ContentTypes == { JsNull, JsString("application/json"), JsString("text/html") }

\* contentType && contentType.includes("application/json")
IsJsonType(contentType) == Truthy(contentType) /\ contentType.v = "application/json"

Replies ==
    { [settled |-> "response", ok |-> ok, contentType |-> ct, body |-> b] :
        ok \in BOOLEAN, ct \in ContentTypes, b \in ResponseBodies }

FetchRejection ==
    [settled |-> "rejected", ok |-> FALSE, contentType |-> JsNull,
     body |-> ResponseBody(FALSE, "", FALSE, Undefined, Undefined)]

\* the variables of the handler, which the page's own steps leave alone
ServerVars ==
    <<world, pc, body, desire, analyzeCalls, analyzeThrew, searchCalls, searchBr,
      errors, totalSearched, uniqueUrls, limitedUrls, scrapeCalls, scrapeBr,
      totalScraped, products, response>>

\* lines 68-77: the catch (setError) and the finally (setIsLoading(false))
Failed(message) ==
    [home EXCEPT !.error = JsString(message), !.isLoading = FALSE, !.pc = "idle"]

\* lines 67, 75-77: setResult(data) and the finally
Succeeded(data) ==
    [home EXCEPT !.result = data, !.isLoading = FALSE, !.pc = "idle"]

\* line 112: the input's onChange; the input is disabled while loading (line 115)
SetDesire(text) ==
    /\ home.pc = "idle"
    /\ ~home.isLoading
    /\ text # home.desire
    /\ home' = [home EXCEPT !.desire = text]
    /\ UNCHANGED ServerVars

\* lines 36-51: handleSubmit is called (the form is disabled while loading,
\* lines 115 and 119) and runs to the await of fetch
Submit ==
    /\ home.pc = "idle"
    /\ home.calls < MaxSubmits
    /\ IF DesireBlank(home.desire)
       THEN home' = [home EXCEPT !.calls = @ + 1]
       ELSE home' = [home EXCEPT !.calls = @ + 1,
                                 !.isLoading = TRUE,
                                 !.error = JsNull,
                                 !.result = JsNull,
                                 !.fetches = @ + 1,
                                 !.reply = NoReply,
                                 !.pc = "fetch"]
    /\ UNCHANGED ServerVars

\* lines 45, 68-77: fetch rejects (network failure)
FetchRejected ==
    /\ home.pc = "fetch"
    /\ home' = [Failed(FetchFailedMessage) EXCEPT !.reply = FetchRejection]
    /\ UNCHANGED ServerVars

\* lines 45-66: fetch resolves with response r; the body is read as JSON or text
FetchResolved(r) ==
    /\ home.pc = "fetch"
    /\ home' = [home EXCEPT
          !.reply = r,
          !.pc = IF r.ok THEN "json"
                 ELSE IF IsJsonType(r.contentType) THEN "errorJson"
                 ELSE "errorText"]
    /\ UNCHANGED ServerVars

\* lines 66-67: response.json() of an OK response settles
JsonSettled ==
    /\ home.pc = "json"
    /\ LET b == home.reply.body
       IN  home' = IF ~b.read THEN Failed(FetchFailedMessage)
                   ELSE IF ~b.parses THEN Failed(ParseMessage)
                   ELSE Succeeded(b.value)
    /\ UNCHANGED ServerVars

\* lines 57-58: response.json() of a failed response settles; throw its error
ErrorJsonSettled ==
    /\ home.pc = "errorJson"
    /\ LET b == home.reply.body
       IN  home' = IF ~b.read THEN Failed(FetchFailedMessage)
                   ELSE IF ~b.parses THEN Failed(ParseMessage)
                   ELSE IF b.value = JsNull THEN Failed(NullReadMessage)
                   ELSE IF Truthy(b.error) THEN Failed(b.error.v)
                   ELSE Failed(RequestFailedMessage)
    /\ UNCHANGED ServerVars

\* lines 61-62: response.text() of a failed response settles; throw its text
ErrorTextSettled ==
    /\ home.pc = "errorText"
    /\ LET b == home.reply.body
       IN  home' = IF ~b.read THEN Failed(FetchFailedMessage)
                   ELSE IF b.text # "" THEN Failed(b.text)
                   ELSE Failed(ServerFailedMessage)
    /\ UNCHANGED ServerVars

\* the page alone: the handler is not running and the services are empty
QuietWorld == [queries |-> <<>>, hits |-> HitsSparse, page |-> PagesSparse]

InitPage == world = QuietWorld /\ IdleRequest

NextPage ==
    \/ \E text \in Texts : SetDesire(text)
    \/ Submit
    \/ FetchRejected
    \/ \E r \in Replies : FetchResolved(r)
    \/ JsonSettled
    \/ ErrorJsonSettled
    \/ ErrorTextSettled

SpecPage == InitPage /\ [][NextPage]_vars

-----------------------------------------------------------------------------
(* Properties *)

Responded == pc = "responded"
Returned == Responded /\ response.kind = "HuntResult"

NoExternalCallBeyondAnalyze ==
    /\ searchCalls = <<>>
    /\ scrapeCalls = <<>>
    /\ \A i \in 1..Len(scrapeBr) : ~scrapeBr[i].extractCalled

FailedSearches == { i \in 1..Len(searchBr) : searchBr[i].threw }
FailedScrapes == { i \in 1..Len(scrapeBr) : scrapeBr[i].scrapeThrew }
FailedExtracts == { i \in 1..Len(scrapeBr) : scrapeBr[i].extractThrew }

\* the run of world w in which no call throws, computed stage by stage
NoFaultRun(w) ==
    LET queries == LimitedQueries(w.queries)
        hits == Flat([i \in 1..Len(queries) |-> SearchReply(w, queries[i])])
        candidates == LimitedUrls(UniqueUrls(hits))
        slots == [i \in 1..Len(candidates) |->
                     IF ContentSufficient(ScrapeReply(w, candidates[i]))
                     THEN ExtractReply(w, candidates[i])
                     ELSE JsNull]
    IN  [totalSearched |-> Len(hits),
         totalScraped |-> Len(candidates),
         products |-> Aggregate(slots)]

(* C1: if analyzeDesire throws, POST answers the generic server error       *)
(* (status 500, the fixed message) and no search, scrape or extractProduct *)
(* call is made for the request.                                           *)
C1_AnalyzeFailureIsFatal ==
    analyzeThrew =>
        /\ Responded
        /\ response.status = 500
        /\ response.kind = "error"
        /\ response.error = "internal-error"
        /\ NoExternalCallBeyondAnalyze

C1_Witness == analyzeThrew /\ Responded /\ analyzeCalls = 1

\* analyzeDesire has succeeded and POST has answered
AnsweredAfterAnalysis == Responded /\ analyzeCalls = 1 /\ ~analyzeThrew

\* failed branches show in the envelope only as fewer hits, fewer candidates
\* and one errors entry per failed search
FailuresOnlyReduceCounts ==
    /\ Len(errors) = Cardinality(FailedSearches)
    /\ totalSearched <= NoFaultRun(world).totalSearched
    /\ totalScraped <= NoFaultRun(world).totalScraped
    /\ \A k \in 1..Len(products) :
          \E i \in 1..Len(scrapeBr) :
              /\ i \notin FailedScrapes \cup FailedExtracts
              /\ products[k] = ExtractReply(world, limitedUrls[i])

(* C2 (as amended): once analyzeDesire has succeeded, no combination of     *)
(* failing search, scrape or extractProduct calls makes the request fail:  *)
(* POST answers 200 with a HuntResult envelope.  Branch failures never     *)
(* raise totalSearched or totalScraped, add one errors entry per failed    *)
(* search and nothing else, and every returned product is one a branch     *)
(* that did not fail extracted; the number of products is not claimed to   *)
(* shrink.                                                                 *)
C2_BranchFailuresNeverFailRequest ==
    AnsweredAfterAnalysis =>
        /\ response.status = 200
        /\ response.kind = "HuntResult"
        /\ FailuresOnlyReduceCounts

C2_Witness ==
    /\ Returned
    /\ FailedSearches # {}
    /\ FailedScrapes # {}
    /\ FailedExtracts # {}
    /\ Len(products) > 0

(* C2 as stated: ... branch failures only reduce products, totalSearched   *)
(* and totalScraped: a run with failures returns no more products than the *)
(* run of the same services without failures.                              *)
C2_Original ==
    AnsweredAfterAnalysis =>
        /\ response.status = 200
        /\ response.kind = "HuntResult"
        /\ FailuresOnlyReduceCounts
        /\ Len(products) <= Len(NoFaultRun(world).products)

\* the desire of a parsed body is missing, empty or not a string; a body that
\* is not an object carries no desire
DesireMissing(b) ==
    \/ b.t # "object"
    \/ b.desire.t # "string"
    \/ b.desire.v = ""

(* C3: for every request whose desire is missing, empty or not a string     *)
(* (including a body that is not an object carrying a desire field), POST   *)
(* answers the client error (status 400), not the server error, and makes  *)
(* no analyzeDesire, search, scrape or extractProduct call.                *)
C3_InvalidDesireIsClientError ==
    (body.parses /\ DesireMissing(body)) =>
        /\ Responded => response.status = 400
        /\ analyzeCalls = 0
        /\ NoExternalCallBeyondAnalyze

\* the candidate slot a returned product came from: the first that holds it
SlotOf(p) == CHOOSE i \in 1..Len(Slots) : Slots[i] = p /\ \A j \in 1..(i - 1) : Slots[j] # p

(* C4: in every returned HuntResult, products is ordered by relevanceScore  *)
(* descending, and products of equal relevanceScore appear in the order of *)
(* their candidate locations.                                              *)
C4_SortedDescendingStable ==
    Returned =>
        \A i, j \in 1..Len(products) :
            i < j =>
                /\ products[i].relevanceScore >= products[j].relevanceScore
                /\ products[i].relevanceScore = products[j].relevanceScore
                      => SlotOf(products[i]) < SlotOf(products[j])

\* a later candidate outranks two earlier ones, which tie and keep their order
C4_Witness ==
    /\ Returned
    /\ Len(products) = 3
    /\ products[1].relevanceScore > products[2].relevanceScore
    /\ products[2].relevanceScore = products[3].relevanceScore
    /\ SlotOf(products[2]) < SlotOf(products[3])
    /\ SlotOf(products[3]) < SlotOf(products[1])

NonEmptyUrl(u) == u.t = "string" /\ u.v # ""

(* C5: in every returned HuntResult, no two products have names that are    *)
(* equal ignoring case, and no two products have the same non-empty        *)
(* officialUrl.                                                            *)
C5_NoDuplicateProducts ==
    Returned =>
        \A i, j \in 1..Len(products) :
            i # j =>
                /\ ToLowerCase(products[i].name) # ToLowerCase(products[j].name)
                /\ ~(/\ NonEmptyUrl(products[i].officialUrl)
                     /\ products[i].officialUrl = products[j].officialUrl)

\* three qualifying candidates, the second a duplicate of the first by name in
\* another case, the third by officialUrl: one product is returned
C5_Witness ==
    /\ Returned
    /\ Len(Slots) = 3
    /\ \A i \in 1..3 : Slots[i] # JsNull /\ Slots[i].relevanceScore >= 5
    /\ Slots[1].name # Slots[2].name
    /\ ToLowerCase(Slots[1].name) = ToLowerCase(Slots[2].name)
    /\ Slots[1].officialUrl # Slots[2].officialUrl
    /\ ToLowerCase(Slots[3].name) # ToLowerCase(Slots[1].name)
    /\ NonEmptyUrl(Slots[3].officialUrl)
    /\ Slots[3].officialUrl = Slots[1].officialUrl
    /\ products = <<Slots[1]>>

(* C6: every product in a returned HuntResult has relevanceScore >= 5; an   *)
(* extracted product with relevanceScore < 5 never appears in products.    *)
C6_MinimumRelevance ==
    Returned =>
        /\ \A k \in 1..Len(products) : products[k].relevanceScore >= 5
        /\ \A i \in 1..Len(Slots) :
              (Slots[i] # JsNull /\ Slots[i].relevanceScore < 5)
                  => \A k \in 1..Len(products) : products[k] # Slots[i]

\* a product scoring 4 was extracted between two that are returned
C6_Witness ==
    /\ Returned
    /\ Len(Slots) = 3
    /\ Slots[2] # JsNull
    /\ Slots[2].relevanceScore = 4
    /\ Len(products) = 2

\* analyzeDesire has resolved and the searches have been started
SearchStarted == pc \in {"searching", "scraping"} \/ Returned

(* C7: whatever the analyzer and the search service return, one request     *)
(* issues at most 2 search calls (for the first two translatedQueries, in   *)
(* their order, each with limit 3), attempts at most 5 scrapes             *)
(* (totalScraped <= 5) and returns at most 5 products.                     *)
C7_BoundedFanOut ==
    /\ Len(searchCalls) <= 2
    /\ SearchStarted =>
          /\ Len(searchCalls) = Min(2, Len(world.queries))
          /\ \A i \in 1..Len(searchCalls) :
                searchCalls[i] = [query |-> world.queries[i].query,
                                  language |-> world.queries[i].language,
                                  limit |-> 3]
    /\ Len(scrapeCalls) <= 5
    /\ Len(scrapeBr) <= 5
    /\ totalScraped <= 5
    /\ Len(products) <= 5

\* three queries, six distinct links: two searches, five scrapes, five products
C7_Witness ==
    /\ Returned
    /\ Len(world.queries) = 3
    /\ Len(searchCalls) = 2
    /\ Len(uniqueUrls) = 6
    /\ totalScraped = 5
    /\ Len(scrapeCalls) = 5
    /\ Len(products) = 5

\* the search join has run
SearchJoined == pc = "scraping" \/ Returned

\* the language of search branch i
BranchLanguage(i) == world.queries[i].language

RECURSIVE SumOver(_, _)
SumOver(f, S) ==
    IF S = {} THEN 0
    ELSE LET x == CHOOSE y \in S : TRUE IN f[x] + SumOver(f, S \ {x})

\* the hits the search service holds for branch i
ServiceHitCount == [i \in 1..Len(searchBr) |-> Len(SearchReply(world, world.queries[i]))]

(* C8: after the search join, errors contains exactly one entry per failed  *)
(* search branch, each naming that branch's language, and nothing else;    *)
(* totalSearched equals the sum of the hit counts of the branches that     *)
(* succeeded.                                                              *)
C8_SearchErrorsAndCount ==
    SearchJoined =>
        /\ Len(errors) = Cardinality(FailedSearches)
        /\ \A k \in 1..Len(errors) : errors[k].text = "search-error"
        /\ \A l \in Languages :
              Cardinality({ k \in 1..Len(errors) : errors[k].language = l })
                  = Cardinality({ i \in FailedSearches : BranchLanguage(i) = l })
        /\ totalSearched = SumOver(ServiceHitCount, (1..Len(searchBr)) \ FailedSearches)

\* exactly one of two branches failed and the other brought hits
C8_Witness ==
    /\ SearchJoined
    /\ Len(searchBr) = 2
    /\ FailedSearches = {1}
    /\ errors = <<[text |-> "search-error", language |-> BranchLanguage(1)]>>
    /\ totalSearched = Len(SearchReply(world, world.queries[2]))
    /\ totalSearched > 0
    /\ Len(SearchReply(world, world.queries[1])) > 0

\* the positions of links that hold a link for the first time
FirstPositions(links) ==
    { i \in 1..Len(links) : \A j \in 1..(i - 1) : links[j] # links[i] }

\* the k-th smallest member of a set of positions
NthPosition(S, k) == CHOOSE i \in S : Cardinality({ j \in S : j < i }) = k - 1

\* the distinct links in order of first occurrence
DistinctInOrder(links) ==
    [k \in 1..Cardinality(FirstPositions(links)) |->
        links[NthPosition(FirstPositions(links), k)]]

\* the links of the hits the succeeded branches brought, branch by branch
FlattenedLinks ==
    Flat([i \in 1..Len(searchBr) |->
            IF i \in FailedSearches THEN <<>>
            ELSE [k \in 1..ServiceHitCount[i] |->
                     SearchReply(world, world.queries[i])[k].link]])

(* C9: the candidate list handed to the scrape stage is the sequence of     *)
(* distinct hit links in order of first occurrence in the flattened hits,  *)
(* truncated to its first 5 entries; deduplication happens before          *)
(* truncation.                                                             *)
C9_CandidatesAreFirstDistinctLinks ==
    SearchJoined =>
        LET distinct == DistinctInOrder(FlattenedLinks)
        IN  /\ limitedUrls = [k \in 1..Min(5, Len(distinct)) |-> distinct[k]]
            /\ scrapeCalls = limitedUrls

\* six hits, a repeated link among the first five, five distinct links: all
\* five are candidates
C9_Witness ==
    /\ SearchJoined
    /\ Len(FlattenedLinks) = 6
    /\ \E i, j \in 1..5 : i < j /\ FlattenedLinks[i] = FlattenedLinks[j]
    /\ Len(limitedUrls) = 5
    /\ limitedUrls[5] = FlattenedLinks[6]

\* scrape branch i has heard from scrape
ScrapeSettled(i) == scrapeBr[i].st # "scrape"

\* the scrape stage adds nothing to errors
NoScrapeErrors == Len(errors) = Cardinality(FailedSearches)

(* C10 (as amended): for each candidate location, extractProduct is invoked *)
(* exactly when scrape succeeded and returned content of more than 100     *)
(* characters; when scrape fails or returns content of 100 characters or   *)
(* fewer (or none), extractProduct is not invoked for that candidate, the  *)
(* branch yields no product, and no entry is added to errors.              *)
C10_ExtractOnlySufficientContent ==
    \A i \in 1..Len(scrapeBr) :
        ScrapeSettled(i) =>
            LET reply == ScrapeReply(world, limitedUrls[i])
            IN  /\ scrapeBr[i].extractCalled
                      <=> (~scrapeBr[i].scrapeThrew /\ ~reply.isNull /\ reply.length > 100)
                /\ ~scrapeBr[i].extractCalled
                      => (scrapeBr[i].st = "resolved" /\ scrapeBr[i].product = JsNull)
                /\ NoScrapeErrors

\* scrape returned exactly 100 characters and extractProduct was not invoked
C10_Witness ==
    \E i \in 1..Len(scrapeBr) :
        /\ scrapeBr[i].st = "resolved"
        /\ ~scrapeBr[i].scrapeThrew
        /\ scrapeBr[i].content = Content(100)
        /\ ~scrapeBr[i].extractCalled
        /\ scrapeBr[i].product = JsNull

(* C10 as stated: extractProduct is invoked exactly when scrape succeeded   *)
(* and returned content of at least 100 characters.                        *)
C10_Original ==
    \A i \in 1..Len(scrapeBr) :
        ScrapeSettled(i) =>
            LET reply == ScrapeReply(world, limitedUrls[i])
            IN  /\ scrapeBr[i].extractCalled
                      <=> (~scrapeBr[i].scrapeThrew /\ ~reply.isNull /\ reply.length >= 100)
                /\ ~scrapeBr[i].extractCalled
                      => (scrapeBr[i].st = "resolved" /\ scrapeBr[i].product = JsNull)
                /\ NoScrapeErrors

\* what candidate i yields when neither of its calls throws
BranchOutcome(i) ==
    IF ContentSufficient(ScrapeReply(world, limitedUrls[i]))
    THEN ExtractReply(world, limitedUrls[i])
    ELSE JsNull

\* the candidates whose scrape or extractProduct call threw
FailedCandidates == FailedScrapes \cup FailedExtracts

\* the extraction outcomes with every failed candidate counted as "no product"
SlotsAsIfNoProduct ==
    [i \in 1..Len(scrapeBr) |->
        IF i \in FailedCandidates THEN JsNull ELSE BranchOutcome(i)]

(* C11: a scrape or extractProduct failure of one candidate adds no entry  *)
(* to errors and leaves the other candidates alone: every other branch     *)
(* still resolves to its own outcome, POST answers 200 only after all of   *)
(* them resolved, and the products are the aggregation of the outcomes in  *)
(* which each failed candidate counts as having yielded no product.        *)
C11_ScrapeFailureIsolated ==
    /\ NoScrapeErrors
    /\ \A i \in 1..Len(scrapeBr) :
          (scrapeBr[i].st = "resolved" /\ i \notin FailedCandidates)
              => scrapeBr[i].product = BranchOutcome(i)
    /\ AnsweredAfterAnalysis =>
          /\ Returned
          /\ \A i \in 1..Len(scrapeBr) : scrapeBr[i].st = "resolved"
          /\ products = Aggregate(SlotsAsIfNoProduct)

C11_Witness ==
    /\ Returned
    /\ FailedScrapes # {}
    /\ FailedExtracts # {}
    /\ Len(products) >= 2
    /\ errors = <<>>

\* two products are duplicates: names equal ignoring case, or the same
\* non-empty officialUrl
RefDuplicate(p, q) ==
    \/ ToLowerCase(p.name) = ToLowerCase(q.name)
    \/ NonEmptyUrl(p.officialUrl) /\ p.officialUrl = q.officialUrl

\* the positions among the first n slots whose product the reference keeps:
\* present, scoring at least 5, a duplicate of none kept before it
RECURSIVE RefKept(_, _)
RefKept(slots, n) ==
    IF n = 0 THEN {}
    ELSE LET kept == RefKept(slots, n - 1)
         IN  IF /\ slots[n] # JsNull
                /\ slots[n].relevanceScore >= 5
                /\ \A j \in kept : ~RefDuplicate(slots[j], slots[n])
             THEN kept \cup {n}
             ELSE kept

\* the place of kept position i in the stable descending order
RefRank(slots, kept, i) ==
    1 + Cardinality({ j \in kept :
                        \/ slots[j].relevanceScore > slots[i].relevanceScore
                        \/ /\ slots[j].relevanceScore = slots[i].relevanceScore
                           /\ j < i })

\* the reference aggregation: the kept products by rank, the first 5 of them
RefAggregate(slots) ==
    LET kept == RefKept(slots, Len(slots))
    IN  [k \in 1..Min(5, Cardinality(kept)) |->
            slots[CHOOSE i \in kept : RefRank(slots, kept, i) = k]]

ScoresOf(ps) == [k \in 1..Len(ps) |-> IF ps[k] = JsNull THEN 0 ELSE ps[k].relevanceScore]

(* C12: the returned products are exactly the reference aggregation of the  *)
(* per-candidate extraction outcomes taken in candidate order: absent      *)
(* outcomes and scores below 5 dropped, a product kept only if it          *)
(* duplicates none kept before it, stable sort by relevanceScore           *)
(* descending, first 5.  Scores 9, 7, 6, 4, 8 without duplicates give      *)
(* 9, 8, 7, 6.                                                             *)
C12_ReferenceAggregation ==
    Returned =>
        /\ products = RefAggregate(Slots)
        /\ ScoresOf(Slots) = <<9, 7, 6, 4, 8>> => ScoresOf(products) = <<9, 8, 7, 6>>

C12_Witness ==
    /\ Returned
    /\ Slots = ScenarioSlots
    /\ ScoresOf(Slots) = <<9, 7, 6, 4, 8>>
    /\ ScoresOf(products) = <<9, 8, 7, 6>>

\* analyzeDesire has succeeded and the search branches have been launched
AnalysisDone ==
    /\ analyzeCalls = 1
    /\ ~analyzeThrew
    /\ pc \in {"searching", "scraping", "responded"}

\* no search branch brings a hit: there is none, or every one of them threw
EverySearchFailed == AnalysisDone /\ \A i \in 1..Len(searchBr) : searchBr[i].threw

(* C13: when analyzeDesire succeeds with no translatedQueries, or every     *)
(* search branch fails, no scrape or extractProduct call is made and the   *)
(* request is answered 200 with products empty, totalSearched 0 and        *)
(* totalScraped 0.                                                         *)
C13_NoHitsStillSucceeds ==
    EverySearchFailed =>
        /\ scrapeCalls = <<>>
        /\ scrapeBr = <<>>
        /\ totalSearched = 0
        /\ totalScraped = 0
        /\ products = <<>>
        /\ Responded =>
              /\ response.kind = "HuntResult"
              /\ response.status = 200

\* both searches threw although the service had hits for their queries
C13_Witness ==
    /\ Returned
    /\ Len(searchBr) = 2
    /\ FailedSearches = {1, 2}
    /\ \A i \in 1..2 : SearchReply(world, world.queries[i]) # <<>>
    /\ products = <<>>
    /\ totalSearched = 0
    /\ totalScraped = 0

\* analyzeDesire returned no translatedQueries at all
C13_WitnessNoQueries == Returned /\ world.queries = <<>> /\ searchCalls = <<>>

\* a scrape call of the request has been issued
ScrapeStarted == pc = "scraping" \/ scrapeCalls # <<>>

(* C14: fork-join ordering.  No scrape call is issued before every         *)
(* launched search branch has settled; extractProduct is called for a      *)
(* candidate only after that candidate's scrape has returned its content;  *)
(* and a HuntResult is returned only when every launched search branch     *)
(* and every launched scrape branch has settled.                           *)
C14_ForkJoinOrdering ==
    /\ ScrapeStarted =>
          \A i \in 1..Len(searchBr) : searchBr[i].st = "resolved"
    /\ \A i \in 1..Len(scrapeBr) :
          scrapeBr[i].extractCalled =>
              /\ scrapeBr[i].st \in {"extract", "resolved"}
              /\ ~scrapeBr[i].scrapeThrew
              /\ scrapeBr[i].content = ScrapeReply(world, limitedUrls[i])
    /\ Returned =>
          /\ Len(searchBr) = Len(searchCalls)
          /\ Len(scrapeBr) = Len(scrapeCalls)
          /\ \A i \in 1..Len(searchBr) : searchBr[i].st = "resolved"
          /\ \A i \in 1..Len(scrapeBr) : scrapeBr[i].st = "resolved"

\* two searches and five scrapes were joined, with and without an extraction
C14_Witness ==
    /\ Returned
    /\ Len(searchBr) = 2
    /\ Len(scrapeBr) = 5
    /\ \E i \in 1..5 : scrapeBr[i].extractCalled
    /\ \E i \in 1..5 : ~scrapeBr[i].extractCalled

\* the hits, candidates and products fixed by the outcomes of the external
\* calls alone: the world's replies, and which of the calls threw
OutcomeHits ==
    Flat([i \in 1..Len(searchBr) |->
            IF i \in FailedSearches
            THEN <<>>
            ELSE SearchReply(world, LimitedQueries(world.queries)[i])])

OutcomeCandidates == LimitedUrls(UniqueUrls(OutcomeHits))

OutcomeSlots ==
    [i \in 1..Len(OutcomeCandidates) |->
        IF \/ i \in FailedCandidates
           \/ ~ContentSufficient(ScrapeReply(world, OutcomeCandidates[i]))
        THEN JsNull
        ELSE ExtractReply(world, OutcomeCandidates[i])]

(* C15: the candidate list, totalSearched, totalScraped and the returned   *)
(* products (content and order) are a function of the outcomes of the      *)
(* external calls only: whatever the order in which the search branches    *)
(* and the scrape branches settle, they are the same.                      *)
C15_InterleavingIndependent ==
    /\ SearchJoined =>
          /\ totalSearched = Len(OutcomeHits)
          /\ limitedUrls = OutcomeCandidates
    /\ Returned =>
          /\ totalScraped = Len(OutcomeCandidates)
          /\ products = Aggregate(OutcomeSlots)

\* two searches with hits and five scrapes, some of them failed, were joined
C15_Witness ==
    /\ Returned
    /\ Len(searchBr) = 2
    /\ FailedSearches = {}
    /\ \A i \in 1..2 : searchBr[i].results # <<>>
    /\ Len(scrapeBr) = 5
    /\ FailedCandidates # {}
    /\ Len(products) >= 3
    /\ products[1] # Slots[1]

\* the three shapes of a response body, each with its status
WellFormedResponse ==
    \/ /\ response = HuntResultResponse
       /\ totalSearched \in Nat
       /\ totalScraped \in Nat
       /\ \A k \in 1..Len(products) : products[k] # JsNull
       /\ \A k \in 1..Len(errors) : errors[k].text = "search-error"
    \/ response = BadRequestResponse
    \/ response = ServerErrorResponse

(* C16: when every external call eventually returns or throws, a request    *)
(* that has arrived is eventually answered; it is answered once (nothing   *)
(* of the answer changes afterwards), and the answer is one of the three   *)
(* well-formed shapes: 200 with a HuntResult, 400 with the error message,  *)
(* 500 with the fixed error message.                                       *)
C16_ExactlyOneResponse ==
    /\ [](IF Responded THEN WellFormedResponse ELSE response = NoResponse)
    /\ [][Responded => UNCHANGED vars]_vars
    /\ (pc # "idle") ~> Responded

\* a request that went through every stage and was answered 200
C16_Witness ==
    /\ Responded
    /\ response = HuntResultResponse
    /\ products # <<>>
    /\ errors # <<>>

\* the candidates whose extracted product scores at least 5
QualifyingSlots ==
    { i \in 1..Len(Slots) : Slots[i] # JsNull /\ Slots[i].relevanceScore >= 5 }

\* the candidates whose product is returned
KeptSlots == { SlotOf(products[k]) : k \in 1..Len(products) }

\* a product scoring below 5 never suppresses a later qualifying product: a
\* qualifying candidate all of whose earlier duplicates score below 5 is kept
LowScoreNeverSuppresses ==
    LET kept == KeptSlots
    IN  \A j \in QualifyingSlots :
            (\A i \in 1..(j - 1) :
                (Slots[i] # JsNull /\ RefDuplicate(Slots[i], Slots[j]))
                    => Slots[i].relevanceScore < 5)
                => j \in kept

\* C17 as it is worded: of any two qualifying products that duplicate each
\* other the earlier one is the one kept, so the later one is never returned
C17_Original ==
    Returned =>
        LET kept == KeptSlots
            qualifying == QualifyingSlots
        IN  /\ \A i, j \in qualifying :
                  (i < j /\ RefDuplicate(Slots[i], Slots[j])) => j \notin kept
            /\ LowScoreNeverSuppresses

(* C17: a qualifying product is kept exactly when it duplicates no product  *)
(* kept from an earlier candidate.  So of two duplicates the later is      *)
(* never returned while the earlier is, even when it scores higher (the    *)
(* sort runs after the filter); it is returned when the earlier one was    *)
(* itself dropped as a duplicate of a third product.  A product scoring    *)
(* below 5 is dropped before the duplicate check and never suppresses a    *)
(* later qualifying product with the same name or officialUrl.             *)
C17_FirstKeptWins ==
    Returned =>
        LET kept == KeptSlots
            qualifying == QualifyingSlots
        IN  /\ kept \subseteq qualifying
            /\ \A j \in qualifying :
                  j \in kept <=>
                      \A i \in kept : i < j => ~RefDuplicate(Slots[i], Slots[j])
            /\ \A i, j \in qualifying :
                  (i < j /\ RefDuplicate(Slots[i], Slots[j]) /\ i \in kept)
                      => j \notin kept
            /\ LowScoreNeverSuppresses

\* three candidates with the same name: the first scores 4 and is dropped,
\* the second scores 5 and is returned, the third scores 9 and is not
C17_Witness ==
    /\ Returned
    /\ Len(Slots) = 3
    /\ \A i \in 1..3 : Slots[i] # JsNull
    /\ \A i \in 2..3 : ToLowerCase(Slots[i].name) = ToLowerCase(Slots[1].name)
    /\ Slots[1].relevanceScore = 4
    /\ Slots[2].relevanceScore = 5
    /\ Slots[3].relevanceScore = 9
    /\ products = <<Slots[2]>>

(* C18: in every returned HuntResult, products.length <= totalScraped <=    *)
(* min(5, totalSearched); totalSearched is the number of hits of all       *)
(* searches before deduplication, totalScraped the number of candidates    *)
(* whose scrape was attempted, failed or not; and the final cut to 5       *)
(* products removes nothing: every product that passed the filter and the  *)
(* duplicate check is returned.                                            *)
C18_CountsOrdered ==
    Returned =>
        /\ Len(products) <= totalScraped
        /\ totalScraped <= Min(5, totalSearched)
        /\ totalSearched = Len(FlattenedLinks)
        /\ totalScraped = Len(scrapeCalls)
        /\ totalScraped = Len(scrapeBr)
        /\ Len(products) = Cardinality(RefKept(Slots, Len(Slots)))

\* six hits, five candidates of which some failed, fewer products
C18_Witness ==
    /\ Returned
    /\ totalSearched = 6
    /\ totalScraped = 5
    /\ FailedCandidates # {}
    /\ Len(products) \in 1..4

\* five products out of five candidates: the cut to 5 has nothing to remove
C18_WitnessFull == Returned /\ Len(products) = 5 /\ totalScraped = 5

\* the errors entry of search branch i
BranchError(i) == [text |-> "search-error", language |-> BranchLanguage(i)]

\* both search branches of the request have failed
BothSearchesFailed == Len(searchBr) = 2 /\ FailedSearches = {1, 2}

\* a step in which search branch i fails puts that branch's entry at the end
\* of errors, and no other step changes errors
ErrorsFollowFailures ==
    /\ \A i \in 1..Len(searchBr) :
          (pc = "searching" /\ pc' = "searching" /\ ~searchBr[i].threw /\ searchBr'[i].threw)
              => errors' = Append(errors, BranchError(i))
    /\ errors' # errors =>
          \E i \in 1..Len(searchBr) :
              pc = "searching" /\ pc' = "searching" /\ ~searchBr[i].threw /\ searchBr'[i].threw

(* C19: when both search branches fail, errors holds the entries of both    *)
(* languages in the order in which the branches failed, either order being *)
(* possible: each failing branch appends its entry at the moment it fails, *)
(* so the order follows the interleaving while the entries as a multiset   *)
(* are the same in every interleaving.                                     *)
C19_ErrorsInFailureOrder ==
    /\ [](BothSearchesFailed =>
             errors \in {<<BranchError(1), BranchError(2)>>,
                         <<BranchError(2), BranchError(1)>>})
    /\ [][ErrorsFollowFailures]_vars

\* the second query's search failed first: errors is in the reverse of the
\* order in which the queries were submitted
C19_Witness ==
    /\ Returned
    /\ BothSearchesFailed
    /\ BranchLanguage(1) # BranchLanguage(2)
    /\ errors = <<BranchError(2), BranchError(1)>>

\* a submit has run to its end and its outcome is the page's state
SubmitFinished == home.pc = "idle" /\ home.reply.settled # "none"

\* the reply is an OK response whose body is parseable JSON
OkWithJson(reply) ==
    /\ reply.settled = "response"
    /\ reply.ok
    /\ reply.body.read
    /\ reply.body.parses

\* a call of handleSubmit with a blank desire changes nothing of the page
\* (calls counts the calls) and sends no request
BlankSubmitIsNoOp ==
    (home'.calls # home.calls /\ DesireBlank(home.desire))
        => home' = [home EXCEPT !.calls = home.calls + 1]

\* while the request is in flight the page is loading with nothing to show
LoadingWhileInFlight ==
    /\ home.pc # "idle" =>
          /\ home.isLoading
          /\ home.result = JsNull
          /\ home.error = JsNull
          /\ home.fetches > 0
    /\ home.pc = "idle" => ~home.isLoading

(* C20: handleSubmit with a blank or whitespace-only desire sends no        *)
(* request and changes no state; otherwise isLoading is true and result    *)
(* and error are both null while the request is in flight, and when the    *)
(* submit has finished isLoading is false and exactly one of result and    *)
(* error is set: result exactly for an OK response with parseable JSON,    *)
(* error for a failed response, a network failure or an unparseable body.  *)
C20_HandleSubmit ==
    /\ [][BlankSubmitIsNoOp]_vars
    /\ []LoadingWhileInFlight
    /\ [](SubmitFinished =>
             /\ ~home.isLoading
             /\ (home.result # JsNull) # (home.error # JsNull)
             /\ home.result # JsNull <=> OkWithJson(home.reply)
             /\ home.error # JsNull <=> ~OkWithJson(home.reply))

\* the same with the one case taken out in which it fails: an OK response
\* whose body is the JSON value null sets neither result nor error
C20_ExceptNullBody ==
    /\ [][BlankSubmitIsNoOp]_vars
    /\ []LoadingWhileInFlight
    /\ [](SubmitFinished =>
             /\ ~home.isLoading
             /\ ~(home.result # JsNull /\ home.error # JsNull)
             /\ home.result # JsNull <=>
                   (OkWithJson(home.reply) /\ home.reply.body.value # JsNull)
             /\ home.error # JsNull <=> ~OkWithJson(home.reply))

\* a submit finished on an OK response with the body null
C20_NullBodyShown ==
    /\ SubmitFinished
    /\ OkWithJson(home.reply)
    /\ home.reply.body.value = JsNull
    /\ home.result = JsNull
    /\ home.error = JsNull

=============================================================================
